---- MODULE Spec2Model ----
(***************************************************************************)
(* A model of the two units of the repository:                             *)
(*   - ERA5DataProcessor (era5_processor.py): a processor object holding   *)
(*     the original dataset copy, its configuration and the loaded dataset, *)
(*     with the methods process_data,                                      *)
(*     extract_components_by_given_timestep, calculate_wind_speed,         *)
(*     subsample_data and get_processed_data;                              *)
(*   - cacheb_key (cacheb_path.py): the interactive key prompt.            *)
(*                                                                         *)
(* A dataset is a record                                                   *)
(*   data_vars  : the names of the data variables, in insertion order      *)
(*   valid_time, latitude, longitude : the coordinate labels               *)
(*   values     : values[v][t][i][j], indexed by the three named dims      *)
(*   attrs      : attrs[v], a record with long_name and units ("" = absent)*)
(* Values and labels are integers; dates are day ordinals.                 *)
(***************************************************************************)
EXTENDS Integers, Sequences, FiniteSets, TLC

VARIABLES
    dataset,            \* self.dataset: the original dataset copy
    loaded_dataset,     \* self.loaded_dataset: None until process_data ran
    variables,          \* self.variables: a list or a dict of names
    date_range,         \* self.date_range: <<start_date, end_date>>
    spatial_range,      \* self.spatial_range: [lat |-> <<min, max>>, lon |-> <<min, max>>]
    convert_longitude,  \* self.convert_longitude
    include_attributes, \* self.include_attributes
    ret,                \* the last method call: its name, arguments and outcome
    first_loaded,       \* history: the loaded dataset the first successful process_data produced
    key_input,          \* what input() does at the prompt of cacheb_key
    key_ret             \* the outcome of the cacheb_key call

vars == <<dataset, loaded_dataset, variables, date_range, spatial_range,
          convert_longitude, include_attributes, ret, first_loaded,
          key_input, key_ret>>

procVars == <<dataset, loaded_dataset, variables, date_range, spatial_range,
              convert_longitude, include_attributes, ret, first_loaded>>

keyVars == <<key_input, key_ret>>

----------------------------------------------------------------------------
(* Bounds of the model. *)

\* the largest number of source longitude points
MaxLon == 3
\* the number of source latitude points
MaxLat == 3
\* the number of source time steps
MaxTime == 3
\* the longest line typed at the key prompt
MaxLen == 3

----------------------------------------------------------------------------
(* Python values. *)

None == [tag |-> "None"]

Range(s) == {s[k] : k \in DOMAIN s}

Indices(n) == [k \in 1..n |-> k]

\* a list or a dict argument, as Python sees it
PyList(items) == [tag |-> "list", items |-> items]
PyDict(pairs) == [tag |-> "dict", items |-> pairs]

\* x if isinstance(x, list) else list(x.keys())
KeysOrList(x) ==
    IF x.tag = "list" THEN x.items
    ELSE [k \in 1..Len(x.items) |-> x.items[k][1]]

----------------------------------------------------------------------------
(* The array library: datasets, positional and label selection. *)

CoordNames == {"latitude", "longitude", "valid_time"}

\* name in ds: data variables and coordinates alike
InDs(ds, name) == name \in Range(ds.data_vars) \cup CoordNames

Take(s, idx) == [k \in 1..Len(idx) |-> s[idx[k]]]

\* ds.isel(valid_time=tI, latitude=iI, longitude=jI) with integer index lists
Isel(ds, tI, iI, jI) ==
    [ds EXCEPT
        !.valid_time = Take(ds.valid_time, tI),
        !.latitude = Take(ds.latitude, iI),
        !.longitude = Take(ds.longitude, jI),
        !.values = [v \in DOMAIN ds.values |->
                      [t \in 1..Len(tI) |->
                         [i \in 1..Len(iI) |->
                            [j \in 1..Len(jI) |-> ds.values[v][tI[t]][iI[i]][jI[j]]]]]]]

AllT(ds) == Indices(Len(ds.valid_time))
AllI(ds) == Indices(Len(ds.latitude))
AllJ(ds) == Indices(Len(ds.longitude))

\* .sel(dim=slice(a, b)) on an ascending index: the labels in [a, b], both ends included
LabelSliceAsc(labels, a, b) ==
    SelectSeq(Indices(Len(labels)), LAMBDA k : a <= labels[k] /\ labels[k] <= b)

\* .sel(dim=slice(a, b)) on a descending index: the labels from a down to b
LabelSliceDesc(labels, a, b) ==
    SelectSeq(Indices(Len(labels)), LAMBDA k : a >= labels[k] /\ labels[k] >= b)

\* ds[var_list]: the data variables of the list, in its order
SelectVars(ds, var_list) ==
    [ds EXCEPT
        !.data_vars = var_list,
        !.values = [v \in Range(var_list) |-> ds.values[v]],
        !.attrs = [v \in Range(var_list) |-> ds.attrs[v]]]

\* a variant that drops the last, partial stride: floor(n / step) positions
SliceIdxFloor(n, step) ==
    IF step > 0
    THEN [k \in 1..(n \div step) |-> (k - 1) * step + 1]
    ELSE [k \in 1..((n + (-step) - 1) \div (-step)) |-> n - (k - 1) * (-step)]

\* the positions Python's [::step] visits in a sequence of n elements (1-based), step # 0
SliceIdx(n, step) ==
    IF step > 0
    THEN [k \in 1..((n + step - 1) \div step) |-> (k - 1) * step + 1]
    ELSE [k \in 1..((n + (-step) - 1) \div (-step)) |-> n - (k - 1) * (-step)]

\* the stable ascending argsort of keys (sortby)
InsertIdx(sorted, k, keys) ==
    SelectSeq(sorted, LAMBDA m : keys[m] <= keys[k]) \o <<k>> \o
    SelectSeq(sorted, LAMBDA m : keys[m] > keys[k])

RECURSIVE ArgSortFrom(_, _, _)
ArgSortFrom(keys, k, sorted) ==
    IF k > Len(keys) THEN sorted
    ELSE ArgSortFrom(keys, k + 1, InsertIdx(sorted, k, keys))

ArgSort(keys) == ArgSortFrom(keys, 1, <<>>)

\* the integer square root (values live on the integer grid)
RECURSIVE IsqrtIn(_, _, _)
IsqrtIn(n, lo, hi) ==
    IF lo >= hi THEN lo
    ELSE LET mid == (lo + hi + 1) \div 2
         IN IF mid * mid <= n THEN IsqrtIn(n, mid, hi) ELSE IsqrtIn(n, lo, mid - 1)

Isqrt(n) == IsqrtIn(n, 0, n)

\* ds[name] broadcast over the three dims: a data variable or a coordinate
Component(ds, name) ==
    [t \in 1..Len(ds.valid_time) |->
       [i \in 1..Len(ds.latitude) |->
          [j \in 1..Len(ds.longitude) |->
             CASE name = "latitude" -> ds.latitude[i]
               [] name = "longitude" -> ds.longitude[j]
               [] name = "valid_time" -> ds.valid_time[t]
               [] OTHER -> ds.values[name][t][i][j]]]]

\* ds[name].attrs
AttrsOf(ds, name) ==
    IF name \in CoordNames THEN [long_name |-> name, units |-> ""]
    ELSE ds.attrs[name]

----------------------------------------------------------------------------
(* ERA5DataProcessor: the methods.  Each is the outcome of one call on the  *)
(* processor in its current state: kind is "ok" or the exception raised,    *)
(* value is what the call returns (None when it raises or returns nothing), *)
(* loaded_dataset is self.loaded_dataset when the call ends.                *)

Raise(exc) == [kind |-> exc, value |-> None, loaded_dataset |-> loaded_dataset]

Return(value) == [kind |-> "ok", value |-> value, loaded_dataset |-> loaded_dataset]

\* (data.longitude + 180) % 360 - 180
ConvertLongitude(lon) == ((lon + 180) % 360) - 180

\* data.assign_coords(longitude=(data.longitude + 180) % 360 - 180)
AssignLongitude(data) ==
    [data EXCEPT !.longitude = [j \in 1..Len(data.longitude) |->
                                  ConvertLongitude(data.longitude[j])]]

\* a variant that leaves out the sortby
NoSortByLongitude(data) == data

\* data.sortby('longitude')

SortByLongitude(data) ==
    Isel(data, AllT(data), AllI(data), ArgSort(data.longitude))

\* a variant that keeps a loaded dataset it already has
process_data_cached ==
    IF loaded_dataset # None THEN Return(None)
    ELSE LET var_list == KeysOrList(variables)
             data == Isel(dataset,
                          LabelSliceAsc(dataset.valid_time, date_range[1], date_range[2]),
                          AllI(dataset), AllJ(dataset))
         IN IF \E k \in 1..Len(var_list) : var_list[k] \notin Range(data.data_vars)
            THEN Raise("KeyError")
            ELSE LET sel == SelectVars(data, var_list)
                     conv == IF convert_longitude
                             THEN SortByLongitude(AssignLongitude(sel))
                             ELSE sel
                     crop == Isel(conv, AllT(conv),
                                  LabelSliceDesc(conv.latitude, spatial_range.lat[2],
                                                 spatial_range.lat[1]),
                                  LabelSliceAsc(conv.longitude, spatial_range.lon[1],
                                                spatial_range.lon[2]))
                 IN [kind |-> "ok", value |-> None, loaded_dataset |-> crop]

process_data ==
    LET start_date == date_range[1]
        end_date == date_range[2]
        latitude_range == spatial_range.lat
        longitude_range == spatial_range.lon
        \* Filter date
        filtered == Isel(dataset,
                         LabelSliceAsc(dataset.valid_time, start_date, end_date),
                         AllI(dataset), AllJ(dataset))
        \* Select variables
        var_list == KeysOrList(variables)
    IN IF \E k \in 1..Len(var_list) : var_list[k] \notin Range(filtered.data_vars)
       THEN Raise("KeyError")
       ELSE LET sel == SelectVars(filtered, var_list)
                \* Convert longitude if needed
                conv == IF convert_longitude
                        THEN SortByLongitude(AssignLongitude(sel))
                        ELSE sel
                \* Select region of interest
                data == Isel(conv, AllT(conv),
                             LabelSliceDesc(conv.latitude, latitude_range[2],
                                            latitude_range[1]),
                             LabelSliceAsc(conv.longitude, longitude_range[1],
                                           longitude_range[2]))
            IN [kind |-> "ok", value |-> None, loaded_dataset |-> data]

\* data[var].isel(valid_time=timestep): Python indexing, negative indices count from the end
IselTimeOk(data, timestep) ==
    -Len(data.valid_time) <= timestep /\ timestep < Len(data.valid_time)

IselTime(data, var, timestep) ==
    data.values[var][(timestep % Len(data.valid_time)) + 1]

EmptyDict == [x \in {} |-> None]

SetItem(d, key, value) ==
    [x \in DOMAIN d \cup {key} |-> IF x = key THEN value ELSE d[x]]

\* a variant of the loop that skips an absent variable
RECURSIVE extract_loop_skipping(_, _, _, _)
extract_loop_skipping(var_list, timestep, k, output_vars) ==
    IF k > Len(var_list) THEN Return(output_vars)
    ELSE IF var_list[k] \in Range(loaded_dataset.data_vars)
         THEN IF IselTimeOk(loaded_dataset, timestep)
              THEN extract_loop_skipping(var_list, timestep, k + 1,
                        SetItem(output_vars, var_list[k],
                                IselTime(loaded_dataset, var_list[k], timestep)))
              ELSE Raise("IndexError")
         ELSE extract_loop_skipping(var_list, timestep, k + 1, output_vars)

\* the for loop over var_list, from its k-th element on
RECURSIVE extract_loop(_, _, _, _)
extract_loop(var_list, timestep, k, output_vars) ==
    IF k > Len(var_list) THEN Return(output_vars)
    ELSE IF var_list[k] \in Range(loaded_dataset.data_vars)
         THEN IF IselTimeOk(loaded_dataset, timestep)
              THEN extract_loop(var_list, timestep, k + 1,
                        SetItem(output_vars, var_list[k],
                                IselTime(loaded_dataset, var_list[k], timestep)))
              ELSE Raise("IndexError")
         ELSE Raise("KeyError")

\* a variant with > for >=
timestep_check_off_by_one(timestep) == timestep > Len(loaded_dataset.valid_time)

\* if timestep >= data.valid_time.size: raise IndexError
timestep_check(timestep) == timestep >= Len(loaded_dataset.valid_time)

\* if extract_variables is None: extract_variables = ValueError(...), an object
\* that is no list and has no keys()
NoneToValueError(extract_variables) ==
    IF extract_variables = None THEN [tag |-> "ValueError"] ELSE extract_variables

extract_components_by_given_timestep(timestep, extract_variables, lat_long) ==
    IF loaded_dataset = None THEN Raise("ValueError")
    ELSE IF timestep_check(timestep) THEN Raise("IndexError")
    ELSE IF NoneToValueError(extract_variables).tag \notin {"list", "dict"}
         THEN Raise("AttributeError")
    ELSE LET var_list == KeysOrList(NoneToValueError(extract_variables))
             r == extract_loop(var_list, timestep, 1, EmptyDict)
         IN IF r.kind # "ok" THEN r
            ELSE IF lat_long
                 THEN Return(SetItem(SetItem(r.value, "lat", loaded_dataset.latitude),
                                     "long", loaded_dataset.longitude))
                 ELSE r

\* ds[new_var_name] = wind_speed, then the attributes
WindSpeedAttrs(ds, u_component) ==
    [long_name |-> "Wind Speed calculated from u and v",
     units |-> IF AttrsOf(ds, u_component).units # ""
               THEN AttrsOf(ds, u_component).units
               ELSE "m s**-1"]

AddWindSpeed(ds, u_component, v_component, new_var_name) ==
    LET u == Component(ds, u_component)
        v == Component(ds, v_component)
        wind_speed == [t \in 1..Len(ds.valid_time) |->
                         [i \in 1..Len(ds.latitude) |->
                            [j \in 1..Len(ds.longitude) |->
                               Isqrt(u[t][i][j] * u[t][i][j] + v[t][i][j] * v[t][i][j])]]]
    IN [ds EXCEPT
          !.data_vars = IF new_var_name \in Range(ds.data_vars) THEN @
                        ELSE Append(@, new_var_name),
          !.values = SetItem(@, new_var_name, wind_speed),
          !.attrs = SetItem(@, new_var_name,
                            IF include_attributes THEN WindSpeedAttrs(ds, u_component)
                            ELSE [long_name |-> "", units |-> ""])]

\* a variant whose validation has "and" for "or": with one component absent it
\* goes on to ds[...] and raises the library's KeyError
calculate_wind_speed_and(u_component, v_component, new_var_name) ==
    IF loaded_dataset = None THEN Raise("ValueError")
    ELSE IF ~InDs(loaded_dataset, u_component) /\ ~InDs(loaded_dataset, v_component)
         THEN Raise("ValueError")
         ELSE IF ~InDs(loaded_dataset, u_component) \/ ~InDs(loaded_dataset, v_component)
              THEN Raise("KeyError")
              ELSE [kind |-> "ok", value |-> None,
                    loaded_dataset |-> AddWindSpeed(loaded_dataset, u_component,
                                                    v_component, new_var_name)]

calculate_wind_speed(u_component, v_component, new_var_name) ==
    IF loaded_dataset = None THEN Raise("ValueError")
    ELSE IF ~InDs(loaded_dataset, u_component) \/ ~InDs(loaded_dataset, v_component)
         THEN Raise("ValueError")
         ELSE [kind |-> "ok", value |-> None,
               loaded_dataset |-> AddWindSpeed(loaded_dataset, u_component,
                                               v_component, new_var_name)]

\* ds.isel(latitude=slice(None, None, step), longitude=slice(None, None, step)),
\* the coordinates subsampled alike and reassigned
Subsample(ds, step) ==
    Isel(ds, AllT(ds), SliceIdx(Len(ds.latitude), step), SliceIdx(Len(ds.longitude), step))

\* a variant that stores the subsampled dataset in self.loaded_dataset
subsample_data_in_place(step) ==
    IF loaded_dataset = None THEN Raise("ValueError")
    ELSE IF step = 0 THEN Raise("ValueError")
    ELSE [kind |-> "ok", value |-> Subsample(loaded_dataset, step),
          loaded_dataset |-> Subsample(loaded_dataset, step)]

subsample_data(step) ==
    IF loaded_dataset = None THEN Raise("ValueError")
    ELSE IF step = 0 THEN Raise("ValueError")   \* [::0]: slice step cannot be zero
    ELSE Return(Subsample(loaded_dataset, step))

\* a variant without the None test
get_processed_data_unguarded == Return(loaded_dataset)

get_processed_data ==
    IF loaded_dataset = None THEN Raise("ValueError")
    ELSE Return(loaded_dataset)

----------------------------------------------------------------------------
(* cacheb_key: the key prompt. *)

\* str.strip(): whitespace removed at both ends
IsSpace(c) == c \in {" ", "\t"}

RECURSIVE lstrip(_)
lstrip(s) == IF s # <<>> /\ IsSpace(Head(s)) THEN lstrip(Tail(s)) ELSE s

RECURSIVE rstrip(_)
rstrip(s) ==
    IF s # <<>> /\ IsSpace(s[Len(s)]) THEN rstrip(SubSeq(s, 1, Len(s) - 1)) ELSE s

strip(s) == rstrip(lstrip(s))

\* issubclass(exc, Exception): KeyboardInterrupt derives from BaseException alone
IsException(exc) == exc # "KeyboardInterrupt"

\* the try block: input(...), strip, the emptiness test
cacheb_key_try(outcome) ==
    IF outcome.kind = "raise" THEN [kind |-> "raise", exc |-> outcome.exc]
    ELSE LET key == strip(outcome.text)
         IN IF key = <<>> THEN [kind |-> "raise", exc |-> "ValueError"]
            ELSE [kind |-> "return", value |-> key]

\* a variant without the except KeyboardInterrupt clause
cacheb_key_no_interrupt_handler(outcome) ==
    LET body == cacheb_key_try(outcome)
    IN IF body.kind = "return" THEN body
       ELSE IF IsException(body.exc) THEN [kind |-> "return", value |-> None]
       ELSE body

\* the except clauses
cacheb_key(outcome) ==
    LET body == cacheb_key_try(outcome)
    IN IF body.kind = "return" THEN body
       ELSE IF body.exc = "KeyboardInterrupt" THEN [kind |-> "return", value |-> None]
       ELSE IF IsException(body.exc) THEN [kind |-> "return", value |-> None]
       ELSE body

----------------------------------------------------------------------------
(* The processors and the calls the model explores. *)

LonStarts == {-190, 0}
LonSteps == {180}

\* regular source grids: ascending longitudes, descending latitudes, daily time steps
SrcLongitudes ==
    {[k \in 1..n |-> start + (k - 1) * d] : start \in LonStarts, d \in LonSteps, n \in 1..MaxLon}

SrcLatitude == [k \in 1..MaxLat |-> 60 - 30 * (k - 1)]

SrcValidTime == Indices(MaxTime)

SrcVars == <<"u10", "v10", "t2m">>

SrcCode(v) == CASE v = "u10" -> 0 [] v = "v10" -> 1 [] v = "t2m" -> 2

\* a value that names its variable and its source position
SrcValue(v, t, i, j) == 64 * SrcCode(v) + 16 * (t - 1) + 4 * (i - 1) + j

SrcAttrs(v) ==
    CASE v = "u10" -> [long_name |-> "10 metre U wind component", units |-> "m/s"]
      [] v = "v10" -> [long_name |-> "10 metre V wind component", units |-> "m/s"]
      [] v = "t2m" -> [long_name |-> "2 metre temperature", units |-> "K"]

SrcDataset(lon) ==
    [data_vars |-> SrcVars,
     valid_time |-> SrcValidTime,
     latitude |-> SrcLatitude,
     longitude |-> lon,
     values |-> [v \in Range(SrcVars) |->
                   [t \in 1..MaxTime |->
                      [i \in 1..MaxLat |->
                         [j \in 1..Len(lon) |-> SrcValue(v, t, i, j)]]]],
     attrs |-> [v \in Range(SrcVars) |-> SrcAttrs(v)]]

VariablesChoices ==
    {PyList(<<"u10", "v10">>),
     PyDict(<<<<"u10", "u">>, <<"v10", "v">>, <<"t2m", "t">>>>),
     PyList(<<"u10", "sp">>)}

\* the whole source, or one day and a smaller region
Windows ==
    {[date_range |-> <<1, MaxTime>>,
      spatial_range |-> [lat |-> <<-90, 90>>, lon |-> <<-360, 360>>]],
     [date_range |-> <<2, 2>>,
      spatial_range |-> [lat |-> <<0, 30>>, lon |-> <<-90, 90>>]]}

Timesteps == {-(MaxTime + 1), -MaxTime, -1, 0, MaxTime - 1, MaxTime}

ExtractChoices ==
    {PyList(<<"u10", "latitude">>),
     PyList(<<"sp", "u10">>),
     PyDict(<<<<"u10", "u">>, <<"v10", "v">>>>),
     None}

UNames == {"u10", "sp"}
VNames == {"v10", "sp"}
NewNames == {"wind_speed", "t2m"}

Steps == (-2)..3

Chars == {" ", "\t", "a", "b"}

Lines == UNION {[1..n -> Chars] : n \in 0..MaxLen}

InputExceptions == {"KeyboardInterrupt", "EOFError", "UnicodeDecodeError", "RuntimeError"}

KeyInputs ==
    {[kind |-> "line", text |-> s] : s \in Lines} \cup
    {[kind |-> "raise", exc |-> e] : e \in InputExceptions}

NotCalled == [op |-> "none", args |-> <<>>, before |-> None, kind |-> "ok", value |-> None]

----------------------------------------------------------------------------
(* The processor as a state machine: construction, then any sequence of calls. *)

\* __init__
Init ==
    /\ dataset \in {SrcDataset(lon) : lon \in SrcLongitudes}
    /\ loaded_dataset = None
    /\ variables \in VariablesChoices
    /\ \E w \in Windows : date_range = w.date_range /\ spatial_range = w.spatial_range
    /\ convert_longitude \in BOOLEAN
    /\ include_attributes \in BOOLEAN
    /\ ret = NotCalled
    /\ first_loaded = None
    /\ key_input = None
    /\ key_ret = None

Config == <<dataset, variables, date_range, spatial_range, convert_longitude,
            include_attributes>>

Called(op, args, r) ==
    /\ loaded_dataset' = r.loaded_dataset
    /\ ret' = [op |-> op, args |-> args,
               \* the data variables loaded when the call began
               before |-> IF loaded_dataset = None THEN None ELSE loaded_dataset.data_vars,
               kind |-> r.kind, value |-> r.value]
    /\ UNCHANGED <<Config, keyVars>>

CallProcessData ==
    /\ Called("process_data", <<>>, process_data)
    /\ first_loaded' = IF first_loaded = None /\ process_data.kind = "ok"
                       THEN process_data.loaded_dataset
                       ELSE first_loaded

CallExtract ==
    \E timestep \in Timesteps, extract_variables \in ExtractChoices, lat_long \in BOOLEAN :
        /\ Called("extract_components_by_given_timestep",
                  [timestep |-> timestep, extract_variables |-> extract_variables,
                   lat_long |-> lat_long],
                  extract_components_by_given_timestep(timestep, extract_variables, lat_long))
        /\ UNCHANGED first_loaded

CallWindSpeed ==
    \E u_component \in UNames, v_component \in VNames, new_var_name \in NewNames :
        /\ Called("calculate_wind_speed",
                  [u_component |-> u_component, v_component |-> v_component,
                   new_var_name |-> new_var_name],
                  calculate_wind_speed(u_component, v_component, new_var_name))
        /\ UNCHANGED first_loaded

CallSubsample ==
    \E step \in Steps :
        /\ Called("subsample_data", [step |-> step], subsample_data(step))
        /\ UNCHANGED first_loaded

CallGet ==
    /\ Called("get_processed_data", <<>>, get_processed_data)
    /\ UNCHANGED first_loaded

Next ==
    \/ CallProcessData
    \/ CallExtract
    \/ CallWindSpeed
    \/ CallSubsample
    \/ CallGet

Spec == Init /\ [][Next]_vars

----------------------------------------------------------------------------
(* The key prompt: one call of cacheb_key on each thing input() can do. *)

Pending == [kind |-> "pending"]

KeyInit ==
    /\ key_input \in KeyInputs
    /\ key_ret = Pending
    /\ dataset = None
    /\ loaded_dataset = None
    /\ variables = None
    /\ date_range = None
    /\ spatial_range = None
    /\ convert_longitude = FALSE
    /\ include_attributes = FALSE
    /\ ret = NotCalled
    /\ first_loaded = None

CallCachebKey ==
    /\ key_ret = Pending
    /\ key_ret' = cacheb_key(key_input)
    /\ UNCHANGED <<key_input, procVars>>

KeyNext == CallCachebKey

KeySpec == KeyInit /\ [][KeyNext]_vars

----------------------------------------------------------------------------
(* The claims. *)

Extract == "extract_components_by_given_timestep"

TimeLength == Len(loaded_dataset.valid_time)

\* C1: on a processor on which process_data never completed, every call of
\* extract_components_by_given_timestep, calculate_wind_speed, subsample_data or
\* get_processed_data raises the invalid-state error (ValueError), whatever its
\* arguments, and the loaded dataset stays undefined.
C1_UnprocessedCallsFail ==
    [][(loaded_dataset = None /\ ret'.op \in {Extract, "calculate_wind_speed",
                                              "subsample_data", "get_processed_data"})
       => (ret'.kind = "ValueError" /\ ret'.value = None /\ loaded_dataset' = None)]_vars

\* an unprocessed call with an out-of-range timestep and an absent variable name
C1_Witness ==
    /\ loaded_dataset = None
    /\ ret.op = Extract
    /\ ret.args.timestep = MaxTime
    /\ ret.args.extract_variables = PyList(<<"sp", "u10">>)
    /\ ret.kind = "ValueError"

\* C2 as stated: in the processed state every timestep outside [0, time-length),
\* negative ones included, fails with the bounds error (IndexError) and returns no
\* mapping; every timestep inside the range passes the bounds check.  (Read for
\* requests whose names are all data variables, where no other error competes
\* with the bounds error.)
C2_AllOutOfRangeFail ==
    (/\ ret.op = Extract
     /\ loaded_dataset # None
     /\ ret.args.extract_variables # None
     /\ Range(KeysOrList(ret.args.extract_variables))
            \subseteq Range(loaded_dataset.data_vars)) =>
        /\ (ret.args.timestep < 0 \/ ret.args.timestep >= TimeLength)
              => (ret.kind = "IndexError" /\ ret.value = None)
        /\ (0 <= ret.args.timestep /\ ret.args.timestep < TimeLength)
              => ret.kind # "IndexError"

\* C2, amended: only the upper bound is validated.  Every timestep >= time-length
\* fails with the bounds error and returns no mapping; every timestep in
\* [0, time-length) passes the bounds check; a negative timestep in
\* [-time-length, 0) is not rejected either: it counts from the end, each extracted
\* variable being the slice at index time-length + timestep.
C2_UpperBoundOnly ==
    (ret.op = Extract /\ loaded_dataset # None) =>
        /\ ret.args.timestep >= TimeLength
              => (ret.kind = "IndexError" /\ ret.value = None)
        /\ (-TimeLength <= ret.args.timestep /\ ret.args.timestep < TimeLength)
              => ret.kind # "IndexError"
        /\ (-TimeLength <= ret.args.timestep /\ ret.args.timestep < 0 /\ ret.kind = "ok")
              => \A v \in Range(KeysOrList(ret.args.extract_variables)) :
                    ret.value[v] =
                        loaded_dataset.values[v][TimeLength + ret.args.timestep + 1]

\* a negative timestep that succeeded on a time axis of several steps
C2_Witness ==
    /\ ret.op = Extract
    /\ loaded_dataset # None
    /\ TimeLength >= 2
    /\ ret.args.timestep = -1
    /\ ret.kind = "ok"

\* C3: in the processed state with a timestep in [0, time-length), a request naming
\* at least one name that is no data variable of the loaded dataset fails with the
\* lookup error (KeyError) and returns no mapping, wherever the absent name stands;
\* when every requested name is present the keys of the returned mapping are the
\* requested names, plus 'lat' and 'long' iff lat_long.
C3_MissingVariableAborts ==
    (/\ ret.op = Extract
     /\ loaded_dataset # None
     /\ ret.args.extract_variables # None
     /\ 0 <= ret.args.timestep
     /\ ret.args.timestep < TimeLength) =>
        LET names == Range(KeysOrList(ret.args.extract_variables))
        IN IF names \subseteq Range(loaded_dataset.data_vars)
           THEN /\ ret.kind = "ok"
                /\ DOMAIN ret.value =
                      names \cup (IF ret.args.lat_long THEN {"lat", "long"} ELSE {})
           ELSE ret.kind = "KeyError" /\ ret.value = None

\* the absent name comes last, after a present one
C3_Witness ==
    /\ ret.op = Extract
    /\ loaded_dataset # None
    /\ ret.args.timestep = 0
    /\ TimeLength >= 1
    /\ ret.args.extract_variables = PyList(<<"u10", "latitude">>)
    /\ ret.kind = "KeyError"

\* C4: in the processed state, calculate_wind_speed with a u_component or a
\* v_component that is not in the loaded dataset fails with the validation error
\* (ValueError) and leaves the loaded dataset as it was: no variable is added or
\* overwritten.
C4_MissingComponentLeavesDataset ==
    [][(/\ loaded_dataset # None
        /\ ret'.op = "calculate_wind_speed"
        /\ \/ ~InDs(loaded_dataset, ret'.args.u_component)
           \/ ~InDs(loaded_dataset, ret'.args.v_component))
       => (ret'.kind = "ValueError" /\ loaded_dataset' = loaded_dataset)]_vars

\* a failed call naming a variable that an earlier call had added
C4_Witness ==
    /\ ret.op = "calculate_wind_speed"
    /\ loaded_dataset # None
    /\ ret.kind = "ValueError"
    /\ ret.args.u_component = "u10"
    /\ ret.args.v_component = "sp"
    /\ ret.args.new_var_name = "wind_speed"
    /\ "wind_speed" \in Range(loaded_dataset.data_vars)

\* the number of elements [::step] keeps of n: ceil(n / step)
IsCeilDiv(c, n, step) == c * step >= n /\ (c - 1) * step < n

\* C5: in the processed state, for every positive step, subsample_data(step)
\* returns a dataset with ceil(N/step) latitude and ceil(M/step) longitude points
\* (ceil(N/2), ceil(M/2) for step 2); its i-th latitude (longitude) label is the
\* loaded label at index i*step, and every variable's value at (i, j) is the
\* loaded value at (i*step, j*step).  (Indices are 0-based in the claim, 1-based here.)
C5_SubsampleKeepsEveryStepth ==
    (ret.op = "subsample_data" /\ loaded_dataset # None /\ ret.args.step > 0) =>
        /\ ret.kind = "ok"
        /\ LET out == ret.value
               step == ret.args.step
           IN /\ IsCeilDiv(Len(out.latitude), Len(loaded_dataset.latitude), step)
              /\ IsCeilDiv(Len(out.longitude), Len(loaded_dataset.longitude), step)
              /\ \A i \in 1..Len(out.latitude) :
                    out.latitude[i] = loaded_dataset.latitude[(i - 1) * step + 1]
              /\ \A j \in 1..Len(out.longitude) :
                    out.longitude[j] = loaded_dataset.longitude[(j - 1) * step + 1]
              /\ out.data_vars = loaded_dataset.data_vars
              /\ out.valid_time = loaded_dataset.valid_time
              /\ \A v \in Range(loaded_dataset.data_vars) :
                    \A t \in 1..Len(out.valid_time) :
                        \A i \in 1..Len(out.latitude) :
                            \A j \in 1..Len(out.longitude) :
                                out.values[v][t][i][j] =
                                    loaded_dataset.values[v][t][(i - 1) * step + 1]
                                                               [(j - 1) * step + 1]

\* step 2 on a 3 x 3 grid: 2 x 2 points come back
C5_Witness ==
    /\ ret.op = "subsample_data"
    /\ loaded_dataset # None
    /\ ret.args.step = 2
    /\ Len(loaded_dataset.latitude) = 3
    /\ Len(loaded_dataset.longitude) = 3
    /\ ret.kind = "ok"
    /\ Len(ret.value.latitude) = 2
    /\ Len(ret.value.longitude) = 2

\* C6: in the processed state, a call of subsample_data,
\* extract_components_by_given_timestep or get_processed_data, whether it succeeds
\* or fails, leaves the loaded dataset as it was, and get_processed_data returns
\* that loaded dataset, with whatever calculate_wind_speed added to it.
C6_ReadsLeaveLoadedDataset ==
    [][(loaded_dataset # None /\ ret'.op \in {"subsample_data", Extract, "get_processed_data"})
       => /\ loaded_dataset' = loaded_dataset
          /\ ret'.op = "get_processed_data"
                => (ret'.kind = "ok" /\ ret'.value = loaded_dataset)]_vars

\* get_processed_data returned a dataset holding an added wind_speed
C6_Witness ==
    /\ ret.op = "get_processed_data"
    /\ ret.kind = "ok"
    /\ loaded_dataset # None
    /\ "wind_speed" \in Range(ret.value.data_vars)
    /\ "wind_speed" \notin Range(first_loaded.data_vars)

\* the source column the j-th loaded column was taken from, read off u10's values
SourceColumn(j) == ((loaded_dataset.values["u10"][1][1][j] - 1) % 4) + 1

\* C7: with longitude conversion enabled, each loaded column carries the label
\* ((lon + 180) mod 360) - 180 of its source longitude lon, every loaded longitude
\* lies in [-180, 180), and the loaded longitudes are non-decreasing.
C7_LongitudesConvertedAndSorted ==
    (convert_longitude /\ loaded_dataset # None) =>
        /\ \A j \in 1..Len(loaded_dataset.longitude) :
              /\ -180 <= loaded_dataset.longitude[j]
              /\ loaded_dataset.longitude[j] < 180
              /\ loaded_dataset.longitude[j] =
                    ((dataset.longitude[SourceColumn(j)] + 180) % 360) - 180
        /\ \A j \in 1..(Len(loaded_dataset.longitude) - 1) :
              loaded_dataset.longitude[j] <= loaded_dataset.longitude[j + 1]

\* source longitudes 0, 180 and exactly 360 came out as -180, 0, 0
C7_Witness ==
    /\ convert_longitude
    /\ loaded_dataset # None
    /\ dataset.longitude = <<0, 180, 360>>
    /\ loaded_dataset.longitude = <<-180, 0, 0>>

\* C8: cacheb_key never raises: it returns the line without its leading and
\* trailing whitespace when that is not empty, and None when it is empty, when the
\* input is interrupted, or when input() raises any other exception.
C8_KeyOrNone ==
    (key_ret # Pending) =>
        /\ key_ret.kind = "return"
        /\ IF key_input.kind = "line"
              /\ \E k \in 1..Len(key_input.text) : key_input.text[k] \notin {" ", "\t"}
           THEN LET solid == {k \in 1..Len(key_input.text) :
                                 key_input.text[k] \notin {" ", "\t"}}
                    first == CHOOSE k \in solid : \A m \in solid : k <= m
                    last == CHOOSE k \in solid : \A m \in solid : k >= m
                IN key_ret.value = SubSeq(key_input.text, first, last)
           ELSE key_ret.value = None

\* the prompt was interrupted and the call returned None
C8_Witness ==
    /\ key_ret # Pending
    /\ key_input.kind = "raise"
    /\ key_input.exc = "KeyboardInterrupt"
    /\ key_ret = [kind |-> "return", value |-> None]

\* C9 as stated: in the processed state, subsample_data with a step <= 0 fails with
\* a validation error (ValueError) and returns no dataset.
C9_NonPositiveStepFails ==
    (ret.op = "subsample_data" /\ loaded_dataset # None /\ ret.args.step <= 0) =>
        (ret.kind = "ValueError" /\ ret.value = None)

\* C10: no call changes the original dataset copy; a successful process_data leaves
\* the loaded dataset equal to the one the first successful process_data produced,
\* whatever was added to it in between; a processed processor stays processed.
C10_ProcessDataRecomputes ==
    [][/\ dataset' = dataset
       /\ loaded_dataset # None => loaded_dataset' # None
       /\ (ret'.op = "process_data" /\ ret'.kind = "ok")
             => loaded_dataset' = first_loaded']_vars

\* process_data ran again on a loaded dataset that held an added wind_speed
C10_Witness ==
    /\ ret.op = "process_data"
    /\ ret.kind = "ok"
    /\ ret.before # None
    /\ "wind_speed" \in Range(ret.before)
    /\ loaded_dataset = first_loaded

====
